---------------------------- MODULE Spec2Model ----------------------------
(***************************************************************************)
(* Reversible PII anonymization of cap-bot                                 *)
(* (src/bot/services/anonymization.py).                                    *)
(*                                                                         *)
(* Python strings are sequences of one-character strings, Python dicts are *)
(* sequences of <<key, value>> pairs in insertion order (a dict iterates   *)
(* in insertion order), Python lists are sequences.                        *)
(***************************************************************************)
EXTENDS Integers, Sequences, FiniteSets, TLC

VARIABLES
    text,                  \* anonymize_pii: the input text
    results,               \* analyzer.analyze(...): the detected spans
    todo,                  \* spans the anonymizer engine has still to operate on
    out_text,              \* the engine's text under replacement (anonymized_result.text)
    entity_mapping,        \* anonymize_pii: entity_mapping
    original_occurrences,  \* anonymize_pii: original_occurrences
    items,                 \* per operated span, the placeholder operate returned
    pc,                    \* position of the call sequence
    ret,                   \* (text, mapping) handed to de_anonymize_pii
    deanonymized,          \* outcome of de_anonymize_pii
    context_aware,         \* anonymize_pii: the context_aware argument
    detection,             \* what analyzer.analyze does with the text: raise, or the spans
    entity_types,          \* anonymize_pii: the entity_types argument
    instance,              \* PIIMasker._instance: 0 for None, else an object
    objects,               \* the PIIMasker objects allocated, with their attributes
    engines_built,         \* how many AnalyzerEngine objects have been constructed
    tpc,                   \* per thread, its position in PIIMasker.__new__
    tret,                  \* per thread, the object PIIMasker() returned to it
    module_analyzer,       \* anonymization.analyzer: 0 before the module is loaded
    analyzed_with,         \* the engines anonymize_pii calls have analysed with
    calls,                 \* per concurrent anonymize_pii call, its locals
    mappings               \* the dicts the concurrent calls created, by reference

anonVars == <<text, results, todo, out_text, entity_mapping, original_occurrences,
              items, pc, ret, deanonymized, context_aware, detection,
              entity_types>>
maskerVars == <<instance, objects, engines_built, tpc, tret, module_analyzer,
                analyzed_with>>
pairVars == <<calls, mappings>>

vars == <<anonVars, maskerVars, pairVars>>

----------------------------------------------------------------------------
(* Bounds of the model                                                     *)

MaxSpans == 3      \* spans per analysed text
MaxTokens == 3     \* tokens of a text handed directly to de_anonymize_pii
MaxLog == 2

\* threads calling PIIMasker() at once
NumThreads == 2

\* anonymize_pii calls counted once the module is loaded
MaxCalls == 2

\* spans of a text given to one of two concurrent anonymize_pii calls
MaxPairSpans == 2

\* spans the analyzer finds in the text whose mentions run into each other
MaxOverlapSpans == 2

\* operate calls made one after another on one mapping
MaxOps == 3

\* spans of a text anonymized with an entity_types argument
MaxTypeSpans == 2

\* pieces of a text, placeholders and what stands between them, handed to
\* de_anonymize_pii
MaxPieces == 4        \* entries of an occurrence log handed directly to de_anonymize_pii

----------------------------------------------------------------------------
(* Python str primitives                                                   *)

UpperChars == <<"A","B","C","D","E","F","G","H","I","J","K","L","M","N","O","P","Q","R","S","T","U","V","W","X","Y","Z">>
LowerChars == <<"a","b","c","d","e","f","g","h","i","j","k","l","m","n","o","p","q","r","s","t","u","v","w","x","y","z">>
DigitChars == <<"0","1","2","3","4","5","6","7","8","9">>

IsUpper(c) == \E i \in 1..Len(UpperChars) : UpperChars[i] = c
IsDigit(c) == \E i \in 1..Len(DigitChars) : DigitChars[i] = c
IsSpace(c) == c \in {" ", "\t", "\n", "\r"}

\* str.lower() on one character
LowerChar(c) ==
    IF IsUpper(c)
    THEN LowerChars[CHOOSE i \in 1..Len(UpperChars) : UpperChars[i] = c]
    ELSE c

\* str.lower()
Lower(s) == [i \in 1..Len(s) |-> LowerChar(s[i])]

\* str.strip(): drop leading and trailing whitespace
Strip(s) ==
    LET keep == {i \in 1..Len(s) : ~IsSpace(s[i])}
    IN  IF keep = {} THEN <<>>
        ELSE LET lo == CHOOSE i \in keep : \A j \in keep : i <= j
                 hi == CHOOSE i \in keep : \A j \in keep : j <= i
             IN  SubSeq(s, lo, hi)

\* str.replace(c, ''): drop every occurrence of one character
RECURSIVE RemoveChar(_, _)
RemoveChar(s, c) ==
    IF s = <<>> THEN <<>>
    ELSE IF Head(s) = c THEN RemoveChar(Tail(s), c)
    ELSE <<Head(s)>> \o RemoveChar(Tail(s), c)

\* sub in s
Contains(s, sub) ==
    \E i \in 0..(Len(s) - Len(sub)) : SubSeq(s, i + 1, i + Len(sub)) = sub

\* s.find(sub): 0-based index of the first occurrence, -1 when absent
Find(s, sub) ==
    IF Contains(s, sub)
    THEN CHOOSE i \in 0..(Len(s) - Len(sub)) :
            /\ SubSeq(s, i + 1, i + Len(sub)) = sub
            /\ \A j \in 0..(i - 1) : SubSeq(s, j + 1, j + Len(sub)) # sub
    ELSE -1

\* s.replace(old, new, 1): replace the first occurrence only
ReplaceFirst(s, old, new) ==
    LET i == Find(s, old)
    IN  IF i < 0 THEN s
        ELSE SubSeq(s, 1, i) \o new \o SubSeq(s, i + Len(old) + 1, Len(s))

\* str(n) for n >= 0
RECURSIVE IntToStr(_)
IntToStr(n) ==
    IF n < 10 THEN <<DigitChars[n + 1]>>
    ELSE IntToStr(n \div 10) \o <<DigitChars[(n % 10) + 1]>>

----------------------------------------------------------------------------
(* Python dict primitives                                                  *)

Has(d, k) == \E i \in 1..Len(d) : d[i][1] = k
IndexOf(d, k) == CHOOSE i \in 1..Len(d) : d[i][1] = k
Get(d, k) == d[IndexOf(d, k)][2]
\* d.get(k, default)
GetOr(d, k, default) == IF Has(d, k) THEN Get(d, k) ELSE default
\* d[k] = v
Put(d, k, v) ==
    IF Has(d, k) THEN [d EXCEPT ![IndexOf(d, k)] = <<k, v>>]
    ELSE Append(d, <<k, v>>)

----------------------------------------------------------------------------
(* Entity types and placeholders                                           *)

\* the ten entity types anonymize_pii scans for by default
EntityTypes ==
    <<"PERSON", "EMAIL_ADDRESS", "PHONE_NUMBER", "CREDIT_CARD", "US_SSN",
      "US_PASSPORT", "LOCATION", "IP_ADDRESS", "URL", "DOMAIN_NAME">>

\* the characters of an entity type's name
TypeChars(t) ==
    CASE t = "PERSON"        -> <<"P","E","R","S","O","N">>
      [] t = "EMAIL_ADDRESS" -> <<"E","M","A","I","L","_","A","D","D","R","E","S","S">>
      [] t = "PHONE_NUMBER"  -> <<"P","H","O","N","E","_","N","U","M","B","E","R">>
      [] t = "CREDIT_CARD"   -> <<"C","R","E","D","I","T","_","C","A","R","D">>
      [] t = "US_SSN"        -> <<"U","S","_","S","S","N">>
      [] t = "US_PASSPORT"   -> <<"U","S","_","P","A","S","S","P","O","R","T">>
      [] t = "LOCATION"      -> <<"L","O","C","A","T","I","O","N">>
      [] t = "IP_ADDRESS"    -> <<"I","P","_","A","D","D","R","E","S","S">>
      [] t = "URL"           -> <<"U","R","L">>
      [] t = "DOMAIN_NAME"   -> <<"D","O","M","A","I","N","_","N","A","M","E">>

\* the format given the index before the one asked for
REPLACING_FORMAT_StaleIndex(entity_type, index) ==
    <<"<">> \o TypeChars(entity_type) \o <<"_">>
        \o IntToStr(IF index > 1 THEN index - 1 ELSE 1) \o <<">">>

\* REPLACING_FORMAT.format(entity_type=..., index=...): "<{entity_type}_{index}>"
REPLACING_FORMAT(entity_type, index) ==
    <<"<">> \o TypeChars(entity_type) \o <<"_">> \o IntToStr(index) \o <<">">>

\* the key of the occurrence log inside the returned mapping
ReservedKey == "_original_occurrences"

----------------------------------------------------------------------------
(* InstanceCounterAnonymizer                                               *)

normalize_name_KeepPeriods(s) == Strip(Lower(s))

normalize_name(s) == RemoveChar(Strip(Lower(s)), ".")

\* the test of the PERSON loop for one known original: equal normalized
\* forms, or containment either way with both forms longer than 2
PersonMatch_OneWay(original, normalized_text) ==
    \/ normalize_name(original) = normalized_text
    \/ /\ Contains(normalize_name(original), normalized_text)
       /\ Len(normalized_text) > 2
       /\ Len(normalize_name(original)) > 2

PersonMatch_NoLengthGuard(original, normalized_text) ==
    \/ normalize_name(original) = normalized_text
    \/ Contains(normalized_text, normalize_name(original))
    \/ Contains(normalize_name(original), normalized_text)

PersonMatch_EqualOnly(original, normalized_text) ==
    normalize_name(original) = normalized_text

PersonMatch(original, normalized_text) ==
    \/ normalize_name(original) = normalized_text
    \/ /\ \/ Contains(normalized_text, normalize_name(original))
          \/ Contains(normalize_name(original), normalized_text)
       /\ Len(normalized_text) > 2
       /\ Len(normalize_name(original)) > 2

\* the test of the non-PERSON loop for one known original
OtherMatch_Exact(original, normalized_text) == original = normalized_text

OtherMatch(original, normalized_text) == Lower(original) = normalized_text

\* "if placeholder not in original_occurrences: ... = []" and the append
LogAppend_Reset(occ, placeholder, s) == Put(occ, placeholder, <<s>>)

LogAppend_Prepend(occ, placeholder, s) ==
    Put(occ, placeholder, <<s>> \o GetOr(occ, placeholder, <<>>))

LogAppend(occ, placeholder, s) ==
    Put(occ, placeholder, Append(GetOr(occ, placeholder, <<>>), s))

\* the loop over the known originals returns at the first one that matches,
\* in the order of the dict
FirstHit_Last(hits) == CHOOSE i \in hits : \A j \in hits : i >= j

FirstHit(hits) == CHOOSE i \in hits : \A j \in hits : i <= j

\* operate(text, params): the placeholder returned and the two dicts of
\* params as the call leaves them
operate(s, entity_type, mapping, occ) ==
    LET normalized_text ==
            IF entity_type = "PERSON" THEN normalize_name(s) ELSE Lower(s)
        entity_mapping_for_type == GetOr(mapping, entity_type, <<>>)
        Matches(i) ==
            IF entity_type = "PERSON"
            THEN PersonMatch(entity_mapping_for_type[i][1], normalized_text)
            ELSE OtherMatch(entity_mapping_for_type[i][1], normalized_text)
        hits == {i \in 1..Len(entity_mapping_for_type) : Matches(i)}
    IN  IF hits # {}
        THEN LET first == FirstHit(hits)
                 placeholder == entity_mapping_for_type[first][2]
             IN  [ret |-> placeholder,
                  entity_mapping |-> mapping,
                  original_occurrences |-> LogAppend(occ, placeholder, s)]
        ELSE IF entity_mapping_for_type = <<>>
        THEN LET new_text == REPLACING_FORMAT(entity_type, 1)
             IN  [ret |-> new_text,
                  entity_mapping |-> Put(mapping, entity_type, <<<<s, new_text>>>>),
                  original_occurrences |-> Put(occ, new_text, <<s>>)]
        ELSE LET previous_index == Len(entity_mapping_for_type)
                 new_text == REPLACING_FORMAT(entity_type, previous_index + 1)
             IN  [ret |-> new_text,
                  entity_mapping |->
                      Put(mapping, entity_type, Put(entity_mapping_for_type, s, new_text)),
                  original_occurrences |-> Put(occ, new_text, <<s>>)]

----------------------------------------------------------------------------
(* The anonymizer engine driving operate (anonymize_pii, context_aware)     *)

\* one span after another in the order the engine operates on them.
\* anonymizer_engine.anonymize is presidio_anonymizer's AnonymizerEngine: it
\* sorts the analyzer results by start offset and operates on them in
\* reverse, last span first, so that a replacement never shifts the offsets
\* of the spans still to do; operate is called once per span in that order
RECURSIVE EngineOrder(_)
EngineOrder(spans) ==
    IF spans = <<>> THEN <<>>
    ELSE LET last == CHOOSE i \in 1..Len(spans) :
                        \A j \in 1..Len(spans) :
                            \/ spans[j].start < spans[i].start
                            \/ /\ spans[j].start = spans[i].start
                               /\ spans[j].end <= spans[i].end
             rest == [k \in 1..(Len(spans) - 1) |->
                        IF k < last THEN spans[k] ELSE spans[k + 1]]
         IN  <<spans[last]>> \o EngineOrder(rest)

\* text[start:end]
Slice(s, start, end) == SubSeq(s, start + 1, end)

\* before it operates, the engine settles the spans that run into each
\* other. The spans of the model carry one and the same score.
\* how many characters two spans share; 0 too when they only touch
Intersects(a, b) ==
    IF a.end < b.start \/ b.end < a.start THEN 0
    ELSE (IF a.end < b.end THEN a.end ELSE b.end)
            - (IF a.start > b.start THEN a.start ELSE b.start)

\* a span gives way to another: one with the same offsets (its score is not
\* higher), or one that contains it
has_conflict(self, other) ==
    IF self.start = other.start /\ self.end = other.end THEN TRUE
    ELSE other.start <= self.start /\ other.end >= self.end

\* first pass, over the spans in the analyzer's order: a span that shares
\* characters with another span of its type, one still to come or one kept,
\* is dropped and the first such span is widened to cover both
RECURSIVE MergeSameType(_, _)
MergeSameType(pending, kept) ==
    IF pending = <<>> THEN kept
    ELSE LET result == Head(pending)
             other_elements == Tail(pending) \o kept
             hits == {k \in 1..Len(other_elements) :
                         /\ other_elements[k].entity_type = result.entity_type
                         /\ Intersects(result, other_elements[k]) # 0}
         IN  IF hits = {} THEN MergeSameType(Tail(pending), Append(kept, result))
             ELSE LET k == CHOOSE h \in hits : \A g \in hits : h <= g
                      o == other_elements[k]
                      merged == [o EXCEPT
                                   !.start = IF result.start < o.start
                                             THEN result.start ELSE o.start,
                                   !.end = IF result.end > o.end
                                           THEN result.end ELSE o.end]
                      n == Len(pending) - 1
                  IN  IF k <= n
                      THEN MergeSameType([Tail(pending) EXCEPT ![k] = merged], kept)
                      ELSE MergeSameType(Tail(pending),
                                         [kept EXCEPT ![k - n] = merged])

\* second pass: a span that gives way to a span still to come or to one
\* kept is dropped; two spans of different types that share characters
\* without one containing the other both stay
RECURSIVE DropConflicted(_, _)
DropConflicted(pending, kept) ==
    IF pending = <<>> THEN kept
    ELSE LET result == Head(pending)
             other_elements == Tail(pending) \o kept
         IN  IF \E k \in 1..Len(other_elements) :
                    has_conflict(result, other_elements[k])
             THEN DropConflicted(Tail(pending), kept)
             ELSE DropConflicted(Tail(pending), Append(kept, result))

RemoveConflicts(spans) == DropConflicted(MergeSameType(spans, <<>>), <<>>)

\* the spans the engine operates on, in its order
EngineSpans(spans) == EngineOrder(RemoveConflicts(spans))

----------------------------------------------------------------------------
(* de_anonymize_pii                                                        *)

Return(s) == [exc |-> "none", value |-> s]
Raise(e) == [exc |-> e, value |-> <<>>]

\* a value a caller passes as entity_mapping: None or a dict
NoneMapping == [isNone |-> TRUE, items |-> <<>>]
DictMapping(d) == [isNone |-> FALSE, items |-> d]

IsNameChar(c) == IsUpper(c) \/ c = "_"

\* the last index of the longest run of [A-Z_] (of digits) starting at j;
\* j - 1 when the run is empty
NameRunEnd(t, j) ==
    CHOOSE k \in (j - 1)..Len(t) :
        /\ \A m \in j..k : IsNameChar(t[m])
        /\ k = Len(t) \/ ~IsNameChar(t[k + 1])
DigitRunEnd(t, j) ==
    CHOOSE k \in (j - 1)..Len(t) :
        /\ \A m \in j..k : IsDigit(t[m])
        /\ k = Len(t) \/ ~IsDigit(t[k + 1])

\* a match of <([A-Z_]+)_(\d+)> starting at index i (1-based): the index of
\* its closing ">", 0 when there is no match at i
MatchEnd(t, i) ==
    IF t[i] # "<" THEN 0
    ELSE LET r == NameRunEnd(t, i + 1)
         IN  IF r - i < 2 \/ t[r] # "_" THEN 0
             ELSE LET d == DigitRunEnd(t, r + 1)
                  IN  IF d = r \/ d = Len(t) THEN 0
                      ELSE IF t[d + 1] # ">" THEN 0
                      ELSE d + 1

\* re.finditer(pattern, anonymized_text) from index i: the
\* (placeholder, position) pairs, position being match.start()
RECURSIVE FindIter(_, _)
FindIter(t, i) ==
    IF i > Len(t) THEN <<>>
    ELSE LET e == MatchEnd(t, i)
         IN  IF e > 0
             THEN <<[placeholder |-> SubSeq(t, i, e), position |-> i - 1]>>
                     \o FindIter(t, e + 1)
             ELSE FindIter(t, i + 1)

\* placeholder_positions.sort(key=lambda x: x[1]): a stable sort by position
RECURSIVE SortByPosition(_)
SortByPosition(ps) ==
    IF ps = <<>> THEN <<>>
    ELSE LET first == CHOOSE i \in 1..Len(ps) :
                         /\ \A j \in 1..Len(ps) : ps[i].position <= ps[j].position
                         /\ \A j \in 1..(i - 1) : ps[j].position # ps[i].position
             rest == [k \in 1..(Len(ps) - 1) |->
                        IF k < first THEN ps[k] ELSE ps[k + 1]]
         IN  <<ps[first]>> \o SortByPosition(rest)

\* the entry of placeholder_to_original for one placeholder: the occurrence
\* log when it has the placeholder, else the original of the per-type
\* dictionaries that maps to it (the inner loop breaks at the first hit of a
\* type, the outer loop goes on, so the last type with a hit wins)
LookupForms(placeholder, d, occ) ==
    IF occ # <<>> /\ Has(occ, placeholder)
    THEN [found |-> TRUE, forms |-> Get(occ, placeholder)]
    ELSE LET HitsOf(t) == {i \in 1..Len(d[t][2]) : d[t][2][i][2] = placeholder}
             types == {t \in 1..Len(d) : d[t][1] # ReservedKey /\ HitsOf(t) # {}}
         IN  IF types = {} THEN [found |-> FALSE, forms |-> <<>>]
             ELSE LET t == CHOOSE u \in types : \A v \in types : v <= u
                      i == CHOOSE h \in HitsOf(t) : \A g \in HitsOf(t) : h <= g
                  IN  [found |-> TRUE, forms |-> <<d[t][2][i][1]>>]

\* what the replacement loop does with a placeholder that has no entry in
\* placeholder_to_original, here dropped from the text instead of skipped
RECURSIVE ReplaceLoop_DropUnknown(_, _, _, _, _, _)
ReplaceLoop_DropUnknown(positions, i, result, occurrence_counts, d, occ) ==
    IF i > Len(positions) THEN Return(result)
    ELSE LET placeholder == positions[i].placeholder
             entry == LookupForms(placeholder, d, occ)
         IN  IF ~entry.found
             THEN ReplaceLoop_DropUnknown(positions, i + 1,
                      ReplaceFirst(result, placeholder, <<>>),
                      occurrence_counts, d, occ)
             ELSE LET original_forms == entry.forms
                      occurrence_idx == GetOr(occurrence_counts, placeholder, 0)
                  IN  IF occurrence_idx >= Len(original_forms) /\ original_forms = <<>>
                      THEN Raise("IndexError")
                      ELSE LET original_value ==
                                   IF occurrence_idx < Len(original_forms)
                                   THEN original_forms[occurrence_idx + 1]
                                   ELSE original_forms[Len(original_forms)]
                           IN  ReplaceLoop_DropUnknown(positions, i + 1,
                                   ReplaceFirst(result, placeholder, original_value),
                                   Put(occurrence_counts, placeholder, occurrence_idx + 1),
                                   d, occ)

\* the replacement loop from its i-th iteration on; original_forms[-1] of an
\* empty list raises IndexError
RECURSIVE ReplaceLoop(_, _, _, _, _, _)
ReplaceLoop(positions, i, result, occurrence_counts, d, occ) ==
    IF i > Len(positions) THEN Return(result)
    ELSE LET placeholder == positions[i].placeholder
             entry == LookupForms(placeholder, d, occ)
         IN  IF ~entry.found
             THEN ReplaceLoop(positions, i + 1, result, occurrence_counts, d, occ)
             ELSE LET original_forms == entry.forms
                      occurrence_idx == GetOr(occurrence_counts, placeholder, 0)
                  IN  IF occurrence_idx >= Len(original_forms) /\ original_forms = <<>>
                      THEN Raise("IndexError")
                      ELSE LET original_value ==
                                   IF occurrence_idx < Len(original_forms)
                                   THEN original_forms[occurrence_idx + 1]
                                   ELSE original_forms[Len(original_forms)]
                           IN  ReplaceLoop(positions, i + 1,
                                   ReplaceFirst(result, placeholder, original_value),
                                   Put(occurrence_counts, placeholder, occurrence_idx + 1),
                                   d, occ)

\* de_anonymize_pii past its first statement; None has no .get
de_anonymize_body(anonymized_text, mapping) ==
    IF mapping.isNone THEN Raise("AttributeError")
    ELSE LET d == mapping.items
             occ == GetOr(d, ReservedKey, <<>>)
             placeholder_positions == SortByPosition(FindIter(anonymized_text, 1))
         IN  ReplaceLoop(placeholder_positions, 1, anonymized_text, <<>>, d, occ)

\* de_anonymize_pii without "if not entity_mapping: return anonymized_text"
de_anonymize_pii_NoGuard(anonymized_text, mapping) ==
    de_anonymize_body(anonymized_text, mapping)

de_anonymize_pii(anonymized_text, mapping) ==
    IF mapping.isNone \/ mapping.items = <<>>
    THEN Return(anonymized_text)
    ELSE de_anonymize_body(anonymized_text, mapping)

----------------------------------------------------------------------------
(* Inputs                                                                  *)

S_JohnDoe == <<"J","o","h","n"," ","D","o","e">>
S_John == <<"J","o","h","n">>
S_JOHNDOE == <<"J","O","H","N"," ","D","O","E">>
S_JaneSmith == <<"J","a","n","e"," ","S","m","i","t","h">>
S_test == <<"t","e","s","t","@","x",".","c","o","m">>
S_TEST == <<"T","E","S","T","@","X",".","C","O","M">>
S_ab == <<"a","@","b",".","i","o">>
S_xio == <<"x",".","i","o">>
S_XIO == <<"X",".","I","O">>

\* the mentions an analysed text is made of, each one span of the analyzer
SpanVocab ==
    << [entity_type |-> "PERSON", chars |-> S_JohnDoe],
       [entity_type |-> "PERSON", chars |-> S_John],
       [entity_type |-> "PERSON", chars |-> S_JOHNDOE],
       [entity_type |-> "PERSON", chars |-> S_JaneSmith],
       [entity_type |-> "EMAIL_ADDRESS", chars |-> S_test],
       [entity_type |-> "EMAIL_ADDRESS", chars |-> S_TEST],
       [entity_type |-> "EMAIL_ADDRESS", chars |-> S_ab],
       [entity_type |-> "URL", chars |-> S_xio],
       [entity_type |-> "URL", chars |-> S_XIO] >>

\* the text between two mentions, which no span covers; it is not blank, so
\* the engine leaves two neighbouring spans of one type apart
Separator == <<";"," ">>

\* a document: its mentions, as indices into SpanVocab
Docs == UNION {[1..n -> 1..Len(SpanVocab)] : n \in 1..MaxSpans}

RECURSIVE DocText(_)
DocText(doc) ==
    IF Len(doc) = 0 THEN <<>>
    ELSE IF Len(doc) = 1 THEN SpanVocab[doc[1]].chars
    ELSE DocText(SubSeq(doc, 1, Len(doc) - 1)) \o Separator
            \o SpanVocab[doc[Len(doc)]].chars

\* the analyzer's results for a document: one span per mention, with the
\* offsets of the mention in the text
DocSpans(doc) ==
    [i \in 1..Len(doc) |->
        LET start == IF i = 1 THEN 0
                     ELSE Len(DocText(SubSeq(doc, 1, i - 1))) + Len(Separator)
        IN  [entity_type |-> SpanVocab[doc[i]].entity_type,
             start |-> start,
             end |-> start + Len(SpanVocab[doc[i]].chars)]]

P_PERSON_1 == <<"<","P","E","R","S","O","N","_","1",">">>
P_URL_1 == <<"<","U","R","L","_","1",">">>
P_URL_9 == <<"<","U","R","L","_","9",">">>
S_hi == <<"h","i">>

\* the tokens of a text handed directly to de_anonymize_pii
TokenVocab == <<P_PERSON_1, P_URL_1, P_URL_9, S_hi>>

TokenDocs == UNION {[1..n -> 1..Len(TokenVocab)] : n \in 1..MaxTokens}

RECURSIVE TokenText(_)
TokenText(doc) ==
    IF Len(doc) = 0 THEN <<>>
    ELSE IF Len(doc) = 1 THEN TokenVocab[doc[1]]
    ELSE TokenText(SubSeq(doc, 1, Len(doc) - 1)) \o <<" ">> \o TokenVocab[doc[Len(doc)]]

\* the original values an occurrence log handed to de_anonymize_pii holds
LogValues == {S_JohnDoe, S_John, P_URL_1}
LogLists == UNION {[1..n -> LogValues] : n \in 0..MaxLog}

\* the per-type dictionaries of a mapping handed to de_anonymize_pii
DictChoices ==
    << <<>>,
       << <<"PERSON", << <<S_JohnDoe, P_PERSON_1>> >> >> >>,
       << <<"PERSON", << <<S_JohnDoe, P_PERSON_1>> >> >>,
          <<"URL", << <<S_xio, P_URL_1>> >> >> >> >>

\* the occurrence logs of <URL_1> in a mapping handed to de_anonymize_pii;
\* the first stands for no entry
UrlLogChoices == << <<>>, <<S_xio>>, <<P_PERSON_1>> >>

\* a mapping as a caller may hand it over: per-type dictionaries, then, when
\* hasLog, the reserved key with the log, <PERSON_1> in it when hasPerson
BuildMapping(dicts, hasLog, hasPerson, personLog, urlChoice) ==
    LET log1 == IF hasPerson THEN <<<<P_PERSON_1, personLog>>>> ELSE <<>>
        log2 == IF urlChoice = 1 THEN log1
                ELSE Append(log1, <<P_URL_1, UrlLogChoices[urlChoice]>>)
    IN  DictMapping(IF hasLog THEN Append(dicts, <<ReservedKey, log2>>) ELSE dicts)

----------------------------------------------------------------------------
(* The call sequence anonymize_pii ; de_anonymize_pii                      *)

NoOutcome == Return(<<>>)

\* nothing has been returned to the caller
NoReturn == [text |-> <<>>, mapping |-> NoneMapping]

\* the "replace" operators of the context-free mode: the new_value of a type
SimpleToken_Indexed(entity_type) == REPLACING_FORMAT(entity_type, 1)

SimpleToken(entity_type) ==
    CASE entity_type = "PERSON"        -> <<"<","P","E","R","S","O","N",">">>
      [] entity_type = "EMAIL_ADDRESS" -> <<"<","E","M","A","I","L",">">>
      [] entity_type = "PHONE_NUMBER"  -> <<"<","P","H","O","N","E",">">>
      [] entity_type = "CREDIT_CARD"   -> <<"<","C","R","E","D","I","T","_","C","A","R","D",">">>
      [] entity_type = "US_SSN"        -> <<"<","S","S","N",">">>
      [] entity_type = "US_PASSPORT"   -> <<"<","P","A","S","S","P","O","R","T",">">>
      [] entity_type = "LOCATION"      -> <<"<","L","O","C","A","T","I","O","N",">">>
      [] entity_type = "IP_ADDRESS"    -> <<"<","I","P",">">>
      [] entity_type = "URL"           -> <<"<","U","R","L",">">>
      [] entity_type = "DOMAIN_NAME"   -> <<"<","D","O","M","A","I","N",">">>

\* the engine's text builder: the replacement put in place of text[start:end]
\* of the text under replacement; a span reaching into the span replaced
\* just before (the engine goes right to left) is cut at that span's start
BuilderReplace(out, done, replacement, start, end) ==
    LET last_replacement_index ==
            IF done = <<>> THEN Len(out) ELSE done[Len(done)].start
        end_of_text == IF end < last_replacement_index THEN end
                       ELSE last_replacement_index
    IN  SubSeq(out, 1, start) \o replacement \o SubSeq(out, end_of_text + 1, Len(out))

\* where analyzer.analyze raising leaves the call: the exception leaves
\* anonymize_pii, which returns nothing
AnalyzeFailed_Swallowed(t) ==
    [pc |-> "anonymized", ret |-> [text |-> t, mapping |-> DictMapping(<<>>)]]

AnalyzeFailed(t) == [pc |-> "raised", ret |-> NoReturn]

\* a value a caller passes as entity_types: None or a list of types
NoneTypes == [isNone |-> TRUE, types |-> <<>>]
ListTypes(l) == [isNone |-> FALSE, types |-> l]

\* the entities anonymize_pii has the analyzer look for: the ten types for
\* None, else the list as it is; the analyzer takes an empty list of
\* entities for all the entities it supports, the ten among them
ScannedTypes(types) ==
    LET passed == IF types.isNone THEN EntityTypes ELSE types.types
    IN  IF passed = <<>> THEN EntityTypes ELSE passed

\* analyzer.analyze(..., entities=...): of the spans it detects in the
\* text, those of the entities asked for
Analyzed(spans, entities) ==
    SelectSeq(spans, LAMBDA span :
                        \E n \in 1..Len(entities) : entities[n] = span.entity_type)

\* no PIIMasker() call under way, no concurrent anonymize_pii calls
MaskerIdle ==
    /\ instance = 0
    /\ objects = <<>>
    /\ engines_built = 0
    /\ tpc = <<>>
    /\ tret = <<>>
    /\ module_analyzer = 0
    /\ analyzed_with = <<>>
PairIdle ==
    /\ calls = <<>>
    /\ mappings = <<>>

\* anonymize_pii is called with a text, in either mode
Init ==
    /\ \E doc \in Docs, fails \in BOOLEAN :
          /\ text = DocText(doc)
          /\ detection = [fails |-> fails, spans |-> DocSpans(doc)]
    /\ context_aware \in BOOLEAN
    /\ entity_types = NoneTypes
    /\ results = <<>>
    /\ todo = <<>>
    /\ out_text = <<>>
    /\ entity_mapping = <<>>
    /\ original_occurrences = <<>>
    /\ items = <<>>
    /\ pc = "called"
    /\ ret = NoReturn
    /\ deanonymized = NoOutcome
    /\ MaskerIdle
    /\ PairIdle

\* analyzer.analyze returns the spans and the anonymizer engine takes them:
\* it starts from the text and the spans in its order
Analyze ==
    /\ pc = "called"
    /\ ~detection.fails
    /\ results' = Analyzed(detection.spans, ScannedTypes(entity_types))
    /\ todo' = EngineSpans(results')
    /\ out_text' = text
    /\ pc' = "operating"
    /\ UNCHANGED <<text, entity_mapping, original_occurrences, items, ret,
                   deanonymized, context_aware, detection, entity_types>>
    /\ UNCHANGED <<maskerVars, pairVars>>

\* analyzer.analyze raises
AnalyzeRaises ==
    /\ pc = "called"
    /\ detection.fails
    /\ pc' = AnalyzeFailed(text).pc
    /\ ret' = AnalyzeFailed(text).ret
    /\ UNCHANGED <<text, results, todo, out_text, entity_mapping,
                   original_occurrences, items, deanonymized, context_aware,
                   detection, entity_types>>
    /\ UNCHANGED <<maskerVars, pairVars>>

\* the engine operates on its next span: operate on the span's text, the
\* returned placeholder put in place of the span
Operate ==
    /\ pc = "operating"
    /\ context_aware
    /\ todo # <<>>
    /\ LET span == Head(todo)
           r == operate(Slice(text, span.start, span.end), span.entity_type,
                        entity_mapping, original_occurrences)
       IN  /\ entity_mapping' = r.entity_mapping
           /\ original_occurrences' = r.original_occurrences
           /\ out_text' = BuilderReplace(out_text, items, r.ret, span.start, span.end)
           /\ items' = Append(items, [start |-> span.start, end |-> span.end,
                                      entity_type |-> span.entity_type,
                                      text |-> r.ret])
    /\ todo' = Tail(todo)
    /\ UNCHANGED <<text, results, pc, ret, deanonymized, context_aware, detection, entity_types>>
    /\ UNCHANGED <<maskerVars, pairVars>>

\* context_aware=False: the engine replaces its next span by the fixed
\* token of the span's type
OperateSimple ==
    /\ pc = "operating"
    /\ ~context_aware
    /\ todo # <<>>
    /\ LET span == Head(todo)
           new_value == SimpleToken(span.entity_type)
       IN  /\ out_text' = BuilderReplace(out_text, items, new_value, span.start, span.end)
           /\ items' = Append(items, [start |-> span.start, end |-> span.end,
                                      entity_type |-> span.entity_type,
                                      text |-> new_value])
    /\ todo' = Tail(todo)
    /\ UNCHANGED <<text, results, entity_mapping, original_occurrences, pc, ret,
                   deanonymized, context_aware, detection, entity_types>>
    /\ UNCHANGED <<maskerVars, pairVars>>

\* the engine is through and anonymize_pii returns
\* (anonymized_result.text, entity_mapping): context-aware, the occurrence
\* log goes into the mapping under the reserved key; else the mapping is {}
AnonymizeReturn ==
    /\ pc = "operating"
    /\ todo = <<>>
    /\ entity_mapping' =
          IF context_aware
          THEN Put(entity_mapping, ReservedKey, original_occurrences)
          ELSE <<>>
    /\ ret' = [text |-> out_text, mapping |-> DictMapping(entity_mapping')]
    /\ pc' = "anonymized"
    /\ UNCHANGED <<text, results, todo, out_text, original_occurrences, items,
                   deanonymized, context_aware, detection, entity_types>>
    /\ UNCHANGED <<maskerVars, pairVars>>

\* de_anonymize_pii on the text and the mapping at hand
DeAnonymize ==
    /\ pc = "anonymized"
    /\ deanonymized' = de_anonymize_pii(ret.text, ret.mapping)
    /\ pc' = "done"
    /\ UNCHANGED <<text, results, todo, out_text, entity_mapping,
                   original_occurrences, items, ret, context_aware, detection, entity_types>>
    /\ UNCHANGED <<maskerVars, pairVars>>

Next ==
    \/ Analyze
    \/ AnalyzeRaises
    \/ Operate
    \/ OperateSimple
    \/ AnonymizeReturn
    \/ DeAnonymize

Spec == Init /\ [][Next]_vars

----------------------------------------------------------------------------
(* de_anonymize_pii called on its own, with any text and any mapping       *)

InitDean ==
    /\ text = <<>>
    /\ results = <<>>
    /\ todo = <<>>
    /\ out_text = <<>>
    /\ entity_mapping = <<>>
    /\ original_occurrences = <<>>
    /\ items = <<>>
    /\ pc = "anonymized"
    /\ deanonymized = NoOutcome
    /\ context_aware = TRUE
    /\ detection = [fails |-> FALSE, spans |-> <<>>]
    /\ entity_types = NoneTypes
    /\ MaskerIdle
    /\ PairIdle
    /\ \E doc \in TokenDocs :
          \/ ret = [text |-> TokenText(doc), mapping |-> NoneMapping]
          \/ \E c \in 1..Len(DictChoices), hasLog \in BOOLEAN, hasPerson \in BOOLEAN,
                personLog \in LogLists, u \in 1..Len(UrlLogChoices) :
                /\ hasLog \/ (~hasPerson /\ personLog = <<>> /\ u = 1)
                /\ hasPerson \/ personLog = <<>>
                /\ ret = [text |-> TokenText(doc),
                          mapping |-> BuildMapping(DictChoices[c], hasLog, hasPerson,
                                                   personLog, u)]

NextDean == DeAnonymize

SpecDean == InitDean /\ [][NextDean]_vars

----------------------------------------------------------------------------
(* PIIMasker.__new__ called by several threads, then the anonymization      *)
(* module loaded and anonymize_pii called                                  *)

Threads == 1..NumThreads

\* no anonymize_pii call under way
AnonIdle ==
    /\ text = <<>>
    /\ results = <<>>
    /\ todo = <<>>
    /\ out_text = <<>>
    /\ entity_mapping = <<>>
    /\ original_occurrences = <<>>
    /\ items = <<>>
    /\ pc = "idle"
    /\ ret = NoReturn
    /\ deanonymized = NoOutcome
    /\ context_aware = TRUE
    /\ detection = [fails |-> FALSE, spans |-> <<>>]
    /\ entity_types = NoneTypes

\* super().__new__(cls): an object without attributes
NewObject == [analyzer |-> 0, anonymizer |-> FALSE]

\* the class as defined: _instance = None, no engine built, nothing loaded
InitMasker ==
    /\ AnonIdle
    /\ PairIdle
    /\ instance = 0
    /\ objects = <<>>
    /\ engines_built = 0
    /\ tpc = [t \in Threads |-> "idle"]
    /\ tret = [t \in Threads |-> 0]
    /\ module_analyzer = 0
    /\ analyzed_with = <<>>

\* PIIMasker(): the test `cls._instance is None`
Call(t) ==
    /\ tpc[t] = "idle"
    /\ tpc' = [tpc EXCEPT ![t] = IF instance = 0 THEN "alloc" ELSE "return"]
    /\ UNCHANGED <<instance, objects, engines_built, tret, module_analyzer,
                   analyzed_with>>
    /\ UNCHANGED <<anonVars, pairVars>>

\* cls._instance = super(PIIMasker, cls).__new__(cls)
Alloc(t) ==
    /\ tpc[t] = "alloc"
    /\ objects' = Append(objects, NewObject)
    /\ instance' = Len(objects) + 1
    /\ tpc' = [tpc EXCEPT ![t] = "engine"]
    /\ UNCHANGED <<engines_built, tret, module_analyzer, analyzed_with>>
    /\ UNCHANGED <<anonVars, pairVars>>

\* the model download and provider.create_engine() go through
CreateEngine(t) ==
    /\ tpc[t] = "engine"
    /\ tpc' = [tpc EXCEPT ![t] = "analyzer"]
    /\ UNCHANGED <<instance, objects, engines_built, tret, module_analyzer,
                   analyzed_with>>
    /\ UNCHANGED <<anonVars, pairVars>>

\* the model download or provider.create_engine() raises: the exception
\* leaves __new__, cls._instance stays as it is
CreateEngineRaises(t) ==
    /\ tpc[t] = "engine"
    /\ tpc' = [tpc EXCEPT ![t] = "raised"]
    /\ UNCHANGED <<instance, objects, engines_built, tret, module_analyzer,
                   analyzed_with>>
    /\ UNCHANGED <<anonVars, pairVars>>

\* cls._instance.analyzer = AnalyzerEngine(...), on the object that
\* cls._instance is now
SetAnalyzer(t) ==
    /\ tpc[t] = "analyzer"
    /\ engines_built' = engines_built + 1
    /\ objects' = [objects EXCEPT ![instance].analyzer = engines_built + 1]
    /\ tpc' = [tpc EXCEPT ![t] = "anonymizer"]
    /\ UNCHANGED <<instance, tret, module_analyzer, analyzed_with>>
    /\ UNCHANGED <<anonVars, pairVars>>

\* cls._instance.anonymizer = AnonymizerEngine()
SetAnonymizer(t) ==
    /\ tpc[t] = "anonymizer"
    /\ objects' = [objects EXCEPT ![instance].anonymizer = TRUE]
    /\ tpc' = [tpc EXCEPT ![t] = "return"]
    /\ UNCHANGED <<instance, engines_built, tret, module_analyzer, analyzed_with>>
    /\ UNCHANGED <<anonVars, pairVars>>

\* return cls._instance
ReturnInstance(t) ==
    /\ tpc[t] = "return"
    /\ tret' = [tret EXCEPT ![t] = instance]
    /\ tpc' = [tpc EXCEPT ![t] = "returned"]
    /\ UNCHANGED <<instance, objects, engines_built, module_analyzer, analyzed_with>>
    /\ UNCHANGED <<anonVars, pairVars>>

\* the anonymization module is loaded: `from bot.config.piiMasker import
\* analyzer, anonymizer` needs a PIIMasker() call that returned an object
\* with both attributes (presidio.analyzer, presidio.anonymizer), then
\* `analyzer = setup_analyzer_with_stanza()` builds an AnalyzerEngine and
\* binds the module's name analyzer to it
LoadAnonymization ==
    /\ module_analyzer = 0
    /\ \E t \in Threads :
          /\ tpc[t] = "returned"
          /\ objects[tret[t]].analyzer # 0
          /\ objects[tret[t]].anonymizer
    /\ engines_built' = engines_built + 1
    /\ module_analyzer' = engines_built + 1
    /\ UNCHANGED <<instance, objects, tpc, tret, analyzed_with>>
    /\ UNCHANGED <<anonVars, pairVars>>

\* anonymize_pii: analyzer.analyze(...) on what the module's name analyzer is
CallAnonymize ==
    /\ module_analyzer # 0
    /\ Len(analyzed_with) < MaxCalls
    /\ analyzed_with' = Append(analyzed_with, module_analyzer)
    /\ UNCHANGED <<instance, objects, engines_built, tpc, tret, module_analyzer>>
    /\ UNCHANGED <<anonVars, pairVars>>

NextMasker ==
    \/ \E t \in Threads : Call(t)
    \/ \E t \in Threads : Alloc(t)
    \/ \E t \in Threads : CreateEngine(t)
    \/ \E t \in Threads : CreateEngineRaises(t)
    \/ \E t \in Threads : SetAnalyzer(t)
    \/ \E t \in Threads : SetAnonymizer(t)
    \/ \E t \in Threads : ReturnInstance(t)
    \/ LoadAnonymization
    \/ CallAnonymize

SpecMasker == InitMasker /\ [][NextMasker]_vars

----------------------------------------------------------------------------
(* Two anonymize_pii calls, context-aware, running at once                 *)

Callers == {1, 2}

\* the mentions of the texts of the two calls, as indices into SpanVocab
PairChoices == {1, 2, 4}
PairDocs == UNION {[1..n -> PairChoices] : n \in 1..MaxPairSpans}

\* entity_mapping = {} of a call: the dict the call starts from
FreshMapping_Carried(heap) ==
    IF heap = <<>> THEN <<>>
    ELSE SelectSeq(heap[Len(heap)].entity_mapping, LAMBDA kv : kv[1] # ReservedKey)

FreshMapping(heap) == <<>>

\* the reference a call holds to its entity_mapping and original_occurrences:
\* the dicts the call has just created
MappingRef_Shared(heap) == 1

MappingRef(heap) == Len(heap) + 1

\* anonymize_pii run on its own from the analyzer's results on: the engine
\* through its spans, then the return
RECURSIVE RunAlone(_, _, _, _, _, _)
RunAlone(t, spans, out, done, mapping, occ) ==
    IF spans = <<>>
    THEN [text |-> out, mapping |-> DictMapping(Put(mapping, ReservedKey, occ))]
    ELSE LET span == Head(spans)
             r == operate(Slice(t, span.start, span.end), span.entity_type,
                          mapping, occ)
         IN  RunAlone(t, Tail(spans),
                      BuilderReplace(out, done, r.ret, span.start, span.end),
                      Append(done, [start |-> span.start, end |-> span.end,
                                    entity_type |-> span.entity_type,
                                    text |-> r.ret]),
                      r.entity_mapping, r.original_occurrences)

AloneResult(t, spans) == RunAlone(t, EngineSpans(spans), t, <<>>, <<>>, <<>>)

\* what a call has returned: the text, and the mapping its reference leads to
Result(c) ==
    [text |-> calls[c].anonymized_text,
     mapping |-> DictMapping(mappings[calls[c].ref].entity_mapping)]

InitPair ==
    /\ AnonIdle
    /\ MaskerIdle
    /\ mappings = <<>>
    /\ \E docs \in [Callers -> PairDocs] :
          calls = [c \in Callers |->
                      [text |-> DocText(docs[c]),
                       arg |-> DocText(docs[c]),
                       results |-> DocSpans(docs[c]),
                       todo |-> <<>>,
                       out_text |-> <<>>,
                       items |-> <<>>,
                       ref |-> 0,
                       pc |-> "called",
                       anonymized_text |-> <<>>,
                       deanonymized |-> NoOutcome]]

\* a call has the analyzer's results, creates its two dicts and enters the
\* engine
PairAnalyze(c) ==
    /\ calls[c].pc = "called"
    /\ mappings' = Append(mappings, [entity_mapping |-> FreshMapping(mappings),
                                     original_occurrences |-> <<>>])
    /\ calls' = [calls EXCEPT ![c].ref = MappingRef(mappings),
                              ![c].todo = EngineSpans(calls[c].results),
                              ![c].out_text = calls[c].text,
                              ![c].pc = "operating"]
    /\ UNCHANGED <<anonVars, maskerVars>>

\* the engine of a call operates on its next span, on the dicts the call
\* refers to
PairOperate(c) ==
    /\ calls[c].pc = "operating"
    /\ calls[c].todo # <<>>
    /\ LET span == Head(calls[c].todo)
           cell == mappings[calls[c].ref]
           r == operate(Slice(calls[c].text, span.start, span.end),
                        span.entity_type, cell.entity_mapping,
                        cell.original_occurrences)
       IN  /\ mappings' = [mappings EXCEPT ![calls[c].ref] =
                              [entity_mapping |-> r.entity_mapping,
                               original_occurrences |-> r.original_occurrences]]
           /\ calls' = [calls EXCEPT
                  ![c].out_text = BuilderReplace(calls[c].out_text, calls[c].items,
                                                 r.ret, span.start, span.end),
                  ![c].items = Append(calls[c].items,
                                      [start |-> span.start, end |-> span.end,
                                       entity_type |-> span.entity_type,
                                       text |-> r.ret]),
                  ![c].todo = Tail(calls[c].todo)]
    /\ UNCHANGED <<anonVars, maskerVars>>

\* a call puts its occurrence log into its mapping and returns
PairReturn(c) ==
    /\ calls[c].pc = "operating"
    /\ calls[c].todo = <<>>
    /\ LET cell == mappings[calls[c].ref]
       IN  mappings' = [mappings EXCEPT ![calls[c].ref].entity_mapping =
                           Put(cell.entity_mapping, ReservedKey,
                               cell.original_occurrences)]
    /\ calls' = [calls EXCEPT ![c].anonymized_text = calls[c].out_text,
                              ![c].pc = "returned"]
    /\ UNCHANGED <<anonVars, maskerVars>>

\* de_anonymize_pii on what a call returned
PairDeAnonymize(c) ==
    /\ calls[c].pc = "returned"
    /\ calls' = [calls EXCEPT
           ![c].deanonymized = de_anonymize_pii(Result(c).text, Result(c).mapping),
           ![c].pc = "done"]
    /\ UNCHANGED mappings
    /\ UNCHANGED <<anonVars, maskerVars>>

NextPair ==
    \/ \E c \in Callers : PairAnalyze(c)
    \/ \E c \in Callers : PairOperate(c)
    \/ \E c \in Callers : PairReturn(c)
    \/ \E c \in Callers : PairDeAnonymize(c)

SpecPair == InitPair /\ [][NextPair]_vars

----------------------------------------------------------------------------
(* anonymize_pii ; de_anonymize_pii on a text whose spans overlap          *)

S_GeorgeWashingtonSquarePark ==
    <<"G","e","o","r","g","e"," ","W","a","s","h","i","n","g","t","o","n"," ",
      "S","q","u","a","r","e"," ","P","a","r","k">>

\* what the analyzer may find in that text: "George Washington", "George"
\* and "Washington" as persons, "Washington Square Park" and "Square Park"
\* as locations
OverlapVocab ==
    << [entity_type |-> "PERSON", start |-> 0, end |-> 17],
       [entity_type |-> "PERSON", start |-> 0, end |-> 6],
       [entity_type |-> "PERSON", start |-> 7, end |-> 17],
       [entity_type |-> "LOCATION", start |-> 7, end |-> 29],
       [entity_type |-> "LOCATION", start |-> 18, end |-> 29] >>

\* the analyzer's results: some of these spans, in any order
OverlapDetections ==
    UNION {{[i \in 1..n |-> OverlapVocab[f[i]]] :
               f \in {g \in [1..n -> 1..Len(OverlapVocab)] :
                         \A i, j \in 1..n : g[i] = g[j] => i = j}} :
           n \in 1..MaxOverlapSpans}

InitOverlap ==
    /\ text = S_GeorgeWashingtonSquarePark
    /\ \E spans \in OverlapDetections, fails \in BOOLEAN :
          detection = [fails |-> fails, spans |-> spans]
    /\ context_aware \in BOOLEAN
    /\ entity_types = NoneTypes
    /\ results = <<>>
    /\ todo = <<>>
    /\ out_text = <<>>
    /\ entity_mapping = <<>>
    /\ original_occurrences = <<>>
    /\ items = <<>>
    /\ pc = "called"
    /\ ret = NoReturn
    /\ deanonymized = NoOutcome
    /\ MaskerIdle
    /\ PairIdle

SpecOverlap == InitOverlap /\ [][Next]_vars

----------------------------------------------------------------------------
(* InstanceCounterAnonymizer.operate called again and again on one mapping *)

S_Al == <<"A","l">>
S_Alan == <<"A","l","a","n">>
S_Period == <<".">>
S_JDoe == <<"J","."," ","D","o","e">>
S_jdoe == <<"j"," ","d","o","e">>
S_JDOEpadded == <<" ","J"," ","D","O","E"," ">>
S_JohnSmith == <<"J","o","h","n"," ","S","m","i","t","h">>
S_Doe == <<"D","o","e">>

\* the mentions operate is called on
OperateVocab ==
    << [entity_type |-> "PERSON", chars |-> S_Al],
       [entity_type |-> "PERSON", chars |-> S_Alan],
       [entity_type |-> "PERSON", chars |-> S_Period],
       [entity_type |-> "PERSON", chars |-> S_JDoe],
       [entity_type |-> "PERSON", chars |-> S_jdoe],
       [entity_type |-> "PERSON", chars |-> S_JDOEpadded],
       [entity_type |-> "PERSON", chars |-> S_JohnSmith],
       [entity_type |-> "PERSON", chars |-> S_JohnDoe],
       [entity_type |-> "PERSON", chars |-> S_John],
       [entity_type |-> "PERSON", chars |-> S_Doe],
       [entity_type |-> "EMAIL_ADDRESS", chars |-> S_test],
       [entity_type |-> "EMAIL_ADDRESS", chars |-> S_TEST],
       [entity_type |-> "URL", chars |-> S_xio] >>

\* the two dicts of params are empty, as anonymize_pii creates them; text
\* collects the mentions operated on, results where each is in it
InitOperate ==
    /\ text = <<>>
    /\ results = <<>>
    /\ todo = <<>>
    /\ out_text = <<>>
    /\ entity_mapping = <<>>
    /\ original_occurrences = <<>>
    /\ items = <<>>
    /\ pc = "operate"
    /\ ret = NoReturn
    /\ deanonymized = NoOutcome
    /\ context_aware = TRUE
    /\ detection = [fails |-> FALSE, spans |-> <<>>]
    /\ entity_types = NoneTypes
    /\ MaskerIdle
    /\ PairIdle

\* one operate call, on a mention and the two dicts as they are
OperateCall ==
    /\ pc = "operate"
    /\ Len(items) < MaxOps
    /\ \E m \in 1..Len(OperateVocab) :
          LET mention == OperateVocab[m]
              r == operate(mention.chars, mention.entity_type, entity_mapping,
                           original_occurrences)
              span == [entity_type |-> mention.entity_type,
                       start |-> Len(text),
                       end |-> Len(text) + Len(mention.chars)]
          IN  /\ text' = text \o mention.chars
              /\ results' = Append(results, span)
              /\ entity_mapping' = r.entity_mapping
              /\ original_occurrences' = r.original_occurrences
              /\ items' = Append(items, [start |-> span.start, end |-> span.end,
                                         entity_type |-> span.entity_type,
                                         text |-> r.ret])
    /\ UNCHANGED <<todo, out_text, pc, ret, deanonymized, context_aware, detection, entity_types>>
    /\ UNCHANGED <<maskerVars, pairVars>>

NextOperate == OperateCall

SpecOperate == InitOperate /\ [][NextOperate]_vars

----------------------------------------------------------------------------
(* anonymize_pii ; de_anonymize_pii with the entity_types argument         *)

\* the mentions of the texts, as indices into SpanVocab: a person, an email
\* address and a URL
TypeChoices == {1, 5, 8}
TypeDocs == UNION {[1..n -> TypeChoices] : n \in 1..MaxTypeSpans}

\* what is passed as entity_types
TypeArguments ==
    << NoneTypes,
       ListTypes(<<>>),
       ListTypes(<<"PERSON">>),
       ListTypes(<<"EMAIL_ADDRESS", "URL">>) >>

InitTypes ==
    /\ \E doc \in TypeDocs, fails \in BOOLEAN :
          /\ text = DocText(doc)
          /\ detection = [fails |-> fails, spans |-> DocSpans(doc)]
    /\ context_aware \in BOOLEAN
    /\ \E n \in 1..Len(TypeArguments) : entity_types = TypeArguments[n]
    /\ results = <<>>
    /\ todo = <<>>
    /\ out_text = <<>>
    /\ entity_mapping = <<>>
    /\ original_occurrences = <<>>
    /\ items = <<>>
    /\ pc = "called"
    /\ ret = NoReturn
    /\ deanonymized = NoOutcome
    /\ MaskerIdle
    /\ PairIdle

SpecTypes == InitTypes /\ [][Next]_vars

----------------------------------------------------------------------------
(* de_anonymize_pii on texts with text of any kind between the placeholders *)

S_RL1 == <<"R","L","_","1",">">>
S_LtU == <<"<","U">>
S_Blank == <<" ">>
S_PERSON_Unindexed == <<"<","P","E","R","S","O","N",">">>

\* the pieces of the texts: two placeholders, an un-indexed token, a blank
\* and the tail of a placeholder
PieceVocab == <<P_PERSON_1, P_URL_1, S_PERSON_Unindexed, S_Blank, S_RL1>>

PieceDocs == UNION {[1..n -> 1..Len(PieceVocab)] : n \in 1..MaxPieces}

\* the pieces one after another, nothing between them
RECURSIVE PieceText(_)
PieceText(doc) ==
    IF Len(doc) = 0 THEN <<>>
    ELSE PieceVocab[Head(doc)] \o PieceText(Tail(doc))

\* the mappings handed over with them: logs of one original each, per-type
\* dicts without a log, and a log whose original is itself a placeholder
PieceMappings ==
    << DictMapping(<< <<ReservedKey, << <<P_PERSON_1, <<S_LtU>> >>,
                                        <<P_URL_1, <<S_xio>> >> >> >> >>),
       DictMapping(<< <<ReservedKey, << <<P_PERSON_1, <<S_John>> >> >> >> >>),
       DictMapping(<< <<"PERSON", << <<S_JohnDoe, P_PERSON_1>> >> >>,
                      <<"URL", << <<S_xio, P_URL_1>> >> >> >>),
       DictMapping(<< <<ReservedKey, << <<P_PERSON_1, <<P_URL_1>> >>,
                                        <<P_URL_1, <<S_xio>> >> >> >> >>) >>

InitPieces ==
    /\ text = <<>>
    /\ results = <<>>
    /\ todo = <<>>
    /\ out_text = <<>>
    /\ entity_mapping = <<>>
    /\ original_occurrences = <<>>
    /\ items = <<>>
    /\ pc = "anonymized"
    /\ deanonymized = NoOutcome
    /\ context_aware = TRUE
    /\ detection = [fails |-> FALSE, spans |-> <<>>]
    /\ entity_types = NoneTypes
    /\ MaskerIdle
    /\ PairIdle
    /\ \E doc \in PieceDocs, m \in 1..Len(PieceMappings) :
          ret = [text |-> PieceText(doc), mapping |-> PieceMappings[m]]

SpecPieces == InitPieces /\ [][NextDean]_vars

----------------------------------------------------------------------------
(* Vocabulary of the properties                                            *)

\* anonymize_pii, context-aware, has returned
Anonymized == context_aware /\ pc \in {"anonymized", "done"}

\* the literal text of the i-th span of the analysed text, spans counted
\* left to right
SpanText(i) == Slice(text, results[i].start, results[i].end)

\* the placeholder put in place of the i-th span
ItemOf(i) ==
    items[CHOOSE k \in 1..Len(items) : items[k].start = results[i].start].text

\* the spans of one entity type, left to right
SpansOfType(t) == SelectSeq([i \in 1..Len(results) |-> i],
                            LAMBDA i : results[i].entity_type = t)

\* the literal texts of the spans from the i-th on that were replaced by
\* placeholder, left to right
RECURSIVE FormsLeftToRight(_, _)
FormsLeftToRight(placeholder, i) ==
    IF i > Len(results) THEN <<>>
    ELSE IF ItemOf(i) = placeholder
    THEN <<SpanText(i)>> \o FormsLeftToRight(placeholder, i + 1)
    ELSE FormsLeftToRight(placeholder, i + 1)

\* two surface forms of one entity type that operate takes for one identity
SameIdentity(t, a, b) ==
    IF t = "PERSON"
    THEN PersonMatch(a, normalize_name(b)) \/ PersonMatch(b, normalize_name(a))
    ELSE Lower(a) = Lower(b)

\* the matches of the placeholder pattern in a text, left to right
Placeholders(t) == FindIter(t, 1)

\* the entry of placeholder_to_original a mapping gives a placeholder
FormsIn(mapping, placeholder) ==
    IF mapping.isNone THEN [found |-> FALSE, forms |-> <<>>]
    ELSE LookupForms(placeholder, mapping.items,
                     GetOr(mapping.items, ReservedKey, <<>>))

\* the occurrence log of a mapping, empty when the mapping has none
LogIn(mapping) ==
    IF mapping.isNone THEN <<>> ELSE GetOr(mapping.items, ReservedKey, <<>>)

\* how many of the first n matches are the placeholder
CountBefore(ps, n, placeholder) ==
    Cardinality({j \in 1..n : ps[j].placeholder = placeholder})

\* the text with every match replaced in place: the k-th occurrence (from 0)
\* of a placeholder by the k-th of its forms, by the last one when k is past
\* the end, and a placeholder without forms left as it is
RECURSIVE PositionalFrom(_, _, _, _, _)
PositionalFrom(t, mapping, ps, i, from) ==
    IF i > Len(ps) THEN SubSeq(t, from, Len(t))
    ELSE LET placeholder == ps[i].placeholder
             entry == FormsIn(mapping, placeholder)
             k == CountBefore(ps, i - 1, placeholder)
             value == IF ~entry.found \/ entry.forms = <<>> THEN placeholder
                      ELSE IF k < Len(entry.forms) THEN entry.forms[k + 1]
                      ELSE entry.forms[Len(entry.forms)]
         IN  SubSeq(t, from, ps[i].position) \o value
                \o PositionalFrom(t, mapping, ps, i + 1,
                                  ps[i].position + Len(placeholder) + 1)

Positional(t, mapping) == PositionalFrom(t, mapping, Placeholders(t), 1, 1)

----------------------------------------------------------------------------
(* Properties of anonymize_pii ; de_anonymize_pii (Spec)                   *)

\* C1: de_anonymize_pii(anonymize_pii(text)) returns exactly the input
\* text, whatever the spans, also when one placeholder stands for several
\* different surface forms.
C1_RoundTrip == (context_aware /\ pc = "done") => deanonymized = Return(text)

\* C2: the occurrence log of each placeholder holds one literal surface
\* string per span resolved to it, in left-to-right order of the spans'
\* start offsets.
C2_LogLeftToRight ==
    Anonymized =>
        \A k \in 1..Len(original_occurrences) :
            original_occurrences[k][2]
                = FormsLeftToRight(original_occurrences[k][1], 1)

\* C3: N pairwise non-matching surface forms of one entity type get the
\* placeholders of indices 1..N in order of first occurrence in the text,
\* the leftmost one index 1.
C3_IndexInTextOrder ==
    Anonymized =>
        \A n \in 1..Len(EntityTypes) :
            LET t == EntityTypes[n]
                spans == SpansOfType(t)
            IN  (\A a, b \in 1..Len(spans) :
                    a < b => ~SameIdentity(t, SpanText(spans[a]), SpanText(spans[b])))
                => \A a \in 1..Len(spans) :
                      ItemOf(spans[a]) = REPLACING_FORMAT(t, a)

\* the PERSON mentions of the text are "John Doe", "John" and "JOHN DOE",
\* each occurring, in some order
JohnMentions ==
    {SpanText(i) : i \in {j \in 1..Len(results) : results[j].entity_type = "PERSON"}}
        = {S_JohnDoe, S_John, S_JOHNDOE}

\* C4: when the PERSON mentions "John Doe", "John" and "JOHN DOE" occur in
\* one text, in any order, all of them are replaced by the same placeholder
\* and the PERSON dictionary has exactly one entry, of index 1.
C4_IdentityMerge ==
    (Anonymized /\ JohnMentions) =>
        /\ \A i \in 1..Len(results) :
              results[i].entity_type = "PERSON" => ItemOf(i) = P_PERSON_1
        /\ Len(Get(entity_mapping, "PERSON")) = 1
        /\ Get(entity_mapping, "PERSON")[1][2] = REPLACING_FORMAT("PERSON", 1)

\* C4, its case: "John Doe", then "JOHN DOE", then "John", which the engine
\* operates on first, all three replaced by <PERSON_1>
C4_Witness ==
    /\ Anonymized
    /\ Len(results) = 3
    /\ SpanText(1) = S_JohnDoe /\ SpanText(2) = S_JOHNDOE /\ SpanText(3) = S_John
    /\ \A i \in 1..3 : ItemOf(i) = P_PERSON_1

\* C5: two spans of one non-PERSON entity type are replaced by the same
\* placeholder exactly when their literal texts are equal after lowercasing.
C5_CaseInsensitive ==
    Anonymized =>
        \A i, j \in 1..Len(results) :
            (/\ results[i].entity_type # "PERSON"
             /\ results[i].entity_type = results[j].entity_type)
            => ((Lower(SpanText(i)) = Lower(SpanText(j))) <=> (ItemOf(i) = ItemOf(j)))

\* C5, its case: two spellings of one e-mail address under one placeholder
\* next to another address under another placeholder
C5_Witness ==
    /\ Anonymized
    /\ \E i, j, k \in 1..Len(results) :
          /\ SpanText(i) = S_test /\ SpanText(j) = S_TEST /\ SpanText(k) = S_ab
          /\ ItemOf(i) = ItemOf(j)
          /\ ItemOf(k) # ItemOf(i)

----------------------------------------------------------------------------
(* Properties of de_anonymize_pii on any text and mapping (SpecDean)       *)

\* C6: de_anonymize_pii replaces the N-th occurrence of a placeholder by the
\* N-th entry of its log, at that occurrence's position, also when several
\* placeholders are interleaved and when a logged value has the shape of a
\* placeholder.
C6_Positional ==
    (pc = "done" /\ deanonymized.exc = "none")
        => deanonymized.value = Positional(ret.text, ret.mapping)

\* s.endswith(suffix)
EndsWith(s, suffix) ==
    /\ Len(suffix) <= Len(s)
    /\ SubSeq(s, Len(s) - Len(suffix) + 1, Len(s)) = suffix

\* the text ends with a placeholder that has a non-empty log and has
\* occurred before as often as the log has entries, or more often
EndsWithExcessOccurrence ==
    LET ps == Placeholders(ret.text)
        n == Len(ps)
    IN  /\ n > 0
        /\ ps[n].position + Len(ps[n].placeholder) = Len(ret.text)
        /\ Has(LogIn(ret.mapping), ps[n].placeholder)
        /\ LET forms == Get(LogIn(ret.mapping), ps[n].placeholder)
           IN  /\ forms # <<>>
               /\ CountBefore(ps, n - 1, ps[n].placeholder) >= Len(forms)

\* C7: when the text holds a placeholder more often than its log has
\* entries, every occurrence past the log's length is replaced by the last
\* logged value; so when such an occurrence ends the text, the last logged
\* value ends the output.
C7_ExcessFallback ==
    (pc = "done" /\ deanonymized.exc = "none" /\ EndsWithExcessOccurrence)
        => LET ps == Placeholders(ret.text)
               forms == Get(LogIn(ret.mapping), ps[Len(ps)].placeholder)
           IN  EndsWith(deanonymized.value, forms[Len(forms)])

\* C8: de_anonymize_pii never raises, whatever the mapping holds.
C8_NeverRaises == pc = "done" => deanonymized.exc = "none"

\* C9: with an empty or absent (None) mapping de_anonymize_pii returns its
\* input text unchanged.
C9_EmptyMappingNoOp ==
    (pc = "done" /\ (ret.mapping.isNone \/ ret.mapping.items = <<>>))
        => deanonymized = Return(ret.text)

\* C9, its case: a text with placeholders and the mapping None
C9_Witness ==
    /\ pc = "done"
    /\ ret.mapping.isNone
    /\ Placeholders(ret.text) # <<>>
    /\ deanonymized = Return(ret.text)

\* the placeholders of the text the mapping has nothing for
UnknownPlaceholders ==
    LET ps == Placeholders(ret.text)
    IN  {ps[i].placeholder : i \in {j \in 1..Len(ps) :
                                      ~FormsIn(ret.mapping, ps[j].placeholder).found}}

\* the text with every match equal to placeholder replaced by filler
RECURSIVE MaskFrom(_, _, _, _, _, _)
MaskFrom(t, ps, i, from, placeholder, filler) ==
    IF i > Len(ps) THEN SubSeq(t, from, Len(t))
    ELSE SubSeq(t, from, ps[i].position)
            \o (IF ps[i].placeholder = placeholder THEN filler ELSE ps[i].placeholder)
            \o MaskFrom(t, ps, i + 1, ps[i].position + Len(ps[i].placeholder) + 1,
                        placeholder, filler)

\* the text with every character c replaced by the string u
RECURSIVE Unmask(_, _, _)
Unmask(s, c, u) ==
    IF s = <<>> THEN <<>>
    ELSE (IF Head(s) = c THEN u ELSE <<Head(s)>>) \o Unmask(Tail(s), c, u)

\* C10: a placeholder-shaped token without occurrence log and without
\* dictionary entry stays verbatim at its position, and its presence changes
\* nothing else: the outcome is that of the text with an inert character in
\* the token's place, the token put back in the character's place.
C10_UnknownLeftVerbatim ==
    pc = "done" =>
        \A u \in UnknownPlaceholders :
            LET masked == MaskFrom(ret.text, Placeholders(ret.text), 1, 1, u, <<"#">>)
                other == de_anonymize_pii(masked, ret.mapping)
            IN  /\ deanonymized.exc = other.exc
                /\ deanonymized.exc = "none"
                      => deanonymized.value = Unmask(other.value, "#", u)

\* C10, its case: an unknown token next to a placeholder that is replaced
C10_Witness ==
    /\ pc = "done"
    /\ deanonymized.exc = "none"
    /\ UnknownPlaceholders # {}
    /\ Contains(deanonymized.value, P_URL_9)
    /\ Contains(ret.text, P_PERSON_1)
    /\ ~Contains(deanonymized.value, P_PERSON_1)

\* the text ends with a placeholder that the occurrence log does not have
\* and that is the value of an entry of a per-type dictionary
EndsWithFallbackPlaceholder ==
    LET ps == Placeholders(ret.text)
        n == Len(ps)
    IN  /\ n > 0
        /\ ps[n].position + Len(ps[n].placeholder) = Len(ret.text)
        /\ ~ret.mapping.isNone
        /\ ~Has(LogIn(ret.mapping), ps[n].placeholder)
        /\ \E t \in 1..Len(ret.mapping.items) :
              /\ ret.mapping.items[t][1] # ReservedKey
              /\ \E i \in 1..Len(ret.mapping.items[t][2]) :
                    ret.mapping.items[t][2][i][2] = ps[n].placeholder

\* C11: a placeholder without occurrence log that is the value of an entry
\* original -> placeholder of a per-type dictionary is replaced, at every
\* occurrence, by that original, the reserved key never taken for an entity
\* type; so when such a placeholder ends the text, an original that maps to
\* it in a per-type dictionary ends the output.
C11_DictFallback ==
    (pc = "done" /\ deanonymized.exc = "none" /\ EndsWithFallbackPlaceholder)
        => LET ps == Placeholders(ret.text)
               d == ret.mapping.items
           IN  \E t \in 1..Len(d) :
                   /\ d[t][1] # ReservedKey
                   /\ \E i \in 1..Len(d[t][2]) :
                         /\ d[t][2][i][2] = ps[Len(ps)].placeholder
                         /\ EndsWith(deanonymized.value, d[t][2][i][1])


----------------------------------------------------------------------------
(* The context-free mode                                                   *)

S_PersonToken == <<"<","P","E","R","S","O","N",">">>

\* C12: with context_aware=False every span of a type becomes one and the
\* same un-indexed literal token (a PERSON span becomes "<PERSON>"), the
\* returned mapping is the empty dict, and de_anonymize_pii on the output and
\* that mapping returns the output unchanged.
C12_SimpleMode ==
    (~context_aware /\ pc \in {"anonymized", "done"})
        => /\ \A i, j \in 1..Len(results) :
                 results[i].entity_type = results[j].entity_type
                     => ItemOf(i) = ItemOf(j)
           /\ \A i \in 1..Len(results) :
                 /\ Placeholders(ItemOf(i)) = <<>>
                 /\ results[i].entity_type = "PERSON" => ItemOf(i) = S_PersonToken
           /\ ret.mapping = DictMapping(<<>>)
           /\ pc = "done" => deanonymized = Return(ret.text)

C12_Witness ==
    /\ ~context_aware
    /\ pc = "done"
    /\ Len(SpansOfType("PERSON")) >= 2
    /\ \E i, j \in 1..Len(results) :
          /\ results[i].entity_type = "PERSON"
          /\ results[j].entity_type = "PERSON"
          /\ ~SameIdentity("PERSON", SpanText(i), SpanText(j))
    /\ ret.text # text

----------------------------------------------------------------------------
(* The placeholders of one mapping                                         *)

\* the positions of the per-type dicts in a mapping
TypeEntries(mapping) == {a \in 1..Len(mapping) : mapping[a][1] # ReservedKey}

\* C13: whatever operate calls have been made on a mapping, within a type no
\* two keys have the same placeholder, no placeholder belongs to two types,
\* every placeholder has the form <TYPE_n> and the indices of a type with k
\* keys are exactly 1..k.
C13_PlaceholdersWellFormed ==
    context_aware
        => \A a \in TypeEntries(entity_mapping) :
              LET entity_type == entity_mapping[a][1]
                  d == entity_mapping[a][2]
                  k == Len(d)
              IN  /\ \A i, j \in 1..k : d[i][2] = d[j][2] => i = j
                  /\ {d[i][2] : i \in 1..k}
                        = {<<"<">> \o TypeChars(entity_type) \o <<"_">>
                              \o IntToStr(n) \o <<">">> : n \in 1..k}
                  /\ \A b \in TypeEntries(entity_mapping) \ {a} :
                        \A i \in 1..k, j \in 1..Len(entity_mapping[b][2]) :
                            d[i][2] # entity_mapping[b][2][j][2]

C13_Witness ==
    /\ context_aware
    /\ pc = "operating"
    /\ todo = <<>>
    /\ \E a, b \in TypeEntries(entity_mapping) :
          /\ a # b
          /\ Len(entity_mapping[a][2]) = 2
          /\ Len(entity_mapping[b][2]) = 1

----------------------------------------------------------------------------
(* The analysis failing                                                    *)

\* C18: when analyzer.analyze raises, in either mode, the exception leaves
\* anonymize_pii: the call returns no anonymised text and no mapping.
C18_AnalysisFailurePropagates ==
    detection.fails => (pc \in {"called", "raised"} /\ ret = NoReturn)

C18_Witness == detection.fails /\ pc = "raised" /\ ~context_aware

C18_WitnessContextAware == detection.fails /\ pc = "raised" /\ context_aware

----------------------------------------------------------------------------
(* Properties of PIIMasker and the module's analyzer (SpecMasker)          *)

\* C14: threads calling PIIMasker() at once while no instance exists build
\* one analyzer engine, never two, and all get the same instance.
C14_SingleInitialization ==
    /\ engines_built <= 1
    /\ \A t, u \in Threads :
          (tpc[t] = "returned" /\ tpc[u] = "returned") => tret[t] = tret[u]
    /\ (\A t \in Threads : tpc[t] = "returned") => engines_built = 1

\* C15: once the anonymization module is loaded, and after any anonymize_pii
\* calls, exactly one analyzer engine has been built in the process and every
\* call has analysed with it.
C15_EngineBuiltOnce ==
    module_analyzer # 0
        => /\ engines_built = 1
           /\ \A i \in 1..Len(analyzed_with) : analyzed_with[i] = 1

\* C19: once the construction of the engine has failed in a PIIMasker()
\* call, which raises and does not try again, no later PIIMasker() call
\* goes straight to returning an instance that has no analyzer.
C19_ConstructionFailureFatal ==
    [][\A u \in Threads :
          (/\ \E t \in Threads : tpc[t] = "raised"
           /\ tpc[u] = "idle"
           /\ tpc'[u] = "return")
              => objects[instance].analyzer # 0]_vars

----------------------------------------------------------------------------
(* Properties of two concurrent anonymize_pii calls (SpecPair)             *)

\* a call has returned
Returned(c) == calls[c].pc \in {"returned", "done"}

\* the literal texts of the spans of a call's text
OwnSpanTexts(c) ==
    {Slice(calls[c].text, calls[c].results[i].start, calls[c].results[i].end) :
        i \in 1..Len(calls[c].results)}

\* C16: with two anonymize_pii calls running at once, their operate steps
\* interleaved in any order, the mapping and the occurrence log of a call
\* hold entries for spans of its own text only, and what a call returns is
\* what the call returns when run alone.
C16_MappingIsolation ==
    \A c \in Callers :
        /\ calls[c].ref # 0 =>
              LET cell == mappings[calls[c].ref]
              IN  /\ \A a \in TypeEntries(cell.entity_mapping) :
                        \A i \in 1..Len(cell.entity_mapping[a][2]) :
                            cell.entity_mapping[a][2][i][1] \in OwnSpanTexts(c)
                  /\ \A a \in 1..Len(cell.original_occurrences) :
                        \A i \in 1..Len(cell.original_occurrences[a][2]) :
                            cell.original_occurrences[a][2][i] \in OwnSpanTexts(c)
        /\ Returned(c) => Result(c) = AloneResult(calls[c].text, calls[c].results)

\* one call has returned while the other, whose text names another person,
\* is between two of its operate steps
C16_Witness ==
    \E c, o \in Callers :
        /\ c # o
        /\ Returned(c)
        /\ calls[o].pc = "operating"
        /\ calls[o].items # <<>>
        /\ calls[o].todo # <<>>
        /\ OwnSpanTexts(o) \ OwnSpanTexts(c) # {}
        /\ OwnSpanTexts(c) \ OwnSpanTexts(o) # {}

\* C17: two anonymize_pii calls on the same text with the same spans return
\* equal (text, mapping) pairs whatever anonymize and de-anonymize calls ran
\* before or between them; in every call the placeholder indices start at 1
\* again, and the text passed in is not modified.
C17_Stateless ==
    /\ \A c, o \in Callers :
          (/\ Returned(c) /\ Returned(o)
           /\ calls[c].arg = calls[o].arg
           /\ calls[c].results = calls[o].results)
              => Result(c) = Result(o)
    /\ \A c \in Callers :
          /\ calls[c].text = calls[c].arg
          /\ \A i \in 1..Len(calls[c].items) :
                LET item == calls[c].items[i]
                IN  (\A j \in 1..(i - 1) :
                        calls[c].items[j].entity_type # item.entity_type)
                        => item.text = <<"<">> \o TypeChars(item.entity_type)
                                          \o <<"_", "1", ">">>

\* the second of two calls on one text that names two persons has returned
\* after the first was de-anonymized
C17_Witness ==
    \E c, o \in Callers :
        /\ c # o
        /\ calls[c].pc = "done"
        /\ calls[o].pc = "returned"
        /\ calls[c].arg = calls[o].arg
        /\ Len(calls[c].results) = 2
        /\ \E a \in TypeEntries(Result(o).mapping.items) :
              Len(Result(o).mapping.items[a][2]) = 2

----------------------------------------------------------------------------
(* Properties of anonymize_pii on overlapping spans (SpecOverlap)          *)

\* the spans that begin a group of spans running into each other: no other
\* span begins before such a span and reaches past its start, or begins
\* where it begins and comes before it in the results
GroupLeaders(spans) ==
    {i \in 1..Len(spans) :
        ~\E j \in 1..Len(spans) :
            \/ spans[j].start < spans[i].start /\ spans[j].end > spans[i].start
            \/ spans[j].start = spans[i].start /\ j < i}

\* how many occurrences an occurrence log holds
RECURSIVE LogEntries(_)
LogEntries(occ) ==
    IF occ = <<>> THEN 0 ELSE Len(Head(occ)[2]) + LogEntries(Tail(occ))

\* C20: when the analyzer's spans overlap, no character of the text is in two
\* of the spans anonymize_pii substitutes, and every group of overlapping
\* spans gives the output one placeholder and the occurrence log one entry.
C20_OverlapGroups ==
    Anonymized
        => /\ \A i, j \in 1..Len(items) :
                 i # j => Intersects(items[i], items[j]) <= 0
           /\ Len(Placeholders(ret.text)) = Cardinality(GroupLeaders(results))
           /\ LogEntries(original_occurrences) = Cardinality(GroupLeaders(results))

----------------------------------------------------------------------------
(* Properties of operate called on one mapping (SpecOperate)               *)

\* an operate call has just been made
Operated == pc = "operate" /\ Len(items') = Len(items) + 1

\* the mention of the call just made, and what the call returned
LastMention == Slice(text', results'[Len(results')].start, results'[Len(results')].end)
LastType == results'[Len(results')].entity_type
LastReturned == items'[Len(items')].text

\* the per-type dict of a mapping, empty when the type has none
DictOf(mapping, entity_type) == GetOr(mapping, entity_type, <<>>)

\* C21: a PERSON mention whose normalized form is inside, or has inside it,
\* the normalized form of a known identity gets that identity's placeholder
\* exactly when both forms are longer than 2 characters or the two forms
\* are equal; a mention that no known identity takes in this way ("Al" after
\* "Alan", ".") becomes a new identity with the next index.
C21_ContainmentGuard ==
    [][(Operated /\ LastType = "PERSON")
          => LET n == normalize_name(LastMention)
                 d == DictOf(entity_mapping, "PERSON")
                 Same(k) ==
                     LET o == normalize_name(d[k][1])
                     IN  \/ o = n
                         \/ /\ Contains(o, n) \/ Contains(n, o)
                            /\ Len(o) > 2
                            /\ Len(n) > 2
             IN  IF \E k \in 1..Len(d) : Same(k)
                 THEN /\ \E k \in 1..Len(d) : Same(k) /\ LastReturned = d[k][2]
                      /\ DictOf(entity_mapping', "PERSON") = d
                 ELSE /\ LastReturned = <<"<","P","E","R","S","O","N","_">>
                                           \o IntToStr(Len(d) + 1) \o <<">">>
                      /\ DictOf(entity_mapping', "PERSON")
                            = Append(d, <<LastMention, LastReturned>>)]_vars

\* "Alan", "Al" and "." have been operated on and are three identities,
\* "Al" being inside "Alan"
C21_Witness ==
    /\ pc = "operate"
    /\ \E i, j, k \in 1..Len(items) :
          /\ SpanText(i) = S_Alan
          /\ SpanText(j) = S_Al
          /\ SpanText(k) = S_Period
          /\ i < j
          /\ ItemOf(i) # ItemOf(j)
          /\ ItemOf(k) # ItemOf(i)
          /\ ItemOf(k) # ItemOf(j)

\* the mentions of one entity type operated on so far, in call order
MentionsOfType(t) == {i \in 1..Len(results) : results[i].entity_type = t}

\* the first mention that got a placeholder
FirstMentionOf(placeholder) ==
    CHOOSE i \in 1..Len(results) :
        /\ ItemOf(i) = placeholder
        /\ \A j \in 1..(i - 1) : ItemOf(j) # placeholder

\* C22: two PERSON mentions whose texts are equal once lowercased, trimmed
\* of leading and trailing whitespace and rid of periods get the same
\* placeholder, whatever their length, and the key the mapping keeps for an
\* identity is the literal text of the first mention operated on for it.
C22_NormalizedMatch ==
    pc = "operate"
        => /\ \A i, j \in MentionsOfType("PERSON") :
                 RemoveChar(Strip(Lower(SpanText(i))), ".")
                       = RemoveChar(Strip(Lower(SpanText(j))), ".")
                    => ItemOf(i) = ItemOf(j)
           /\ LET d == DictOf(entity_mapping, "PERSON")
              IN  \A k \in 1..Len(d) : d[k][1] = SpanText(FirstMentionOf(d[k][2]))

\* "J. Doe", " J DOE " and "j doe" operated on in that order are one
\* identity, kept under "J. Doe"
C22_Witness ==
    /\ pc = "operate"
    /\ Len(items) = 3
    /\ SpanText(1) = S_JDoe
    /\ SpanText(2) = S_JDOEpadded
    /\ SpanText(3) = S_jdoe
    /\ ItemOf(1) = ItemOf(3)
    /\ DictOf(entity_mapping, "PERSON") = << <<S_JDoe, P_PERSON_1>> >>

\* two PERSON texts that are one identity: equal normalized forms, or one
\* normalized form inside the other with both longer than 2 characters
OneIdentity(a, b) ==
    LET na == RemoveChar(Strip(Lower(a)), ".")
        nb == RemoveChar(Strip(Lower(b)), ".")
    IN  \/ na = nb
        \/ /\ Contains(na, nb) \/ Contains(nb, na)
           /\ Len(na) > 2
           /\ Len(nb) > 2

\* C25: whatever operate calls have been made on a mapping, the keys of a
\* per-type dict do not match one another: no two keys of another type than
\* PERSON are equal once case-folded, no two PERSON keys have equal
\* normalized forms, and no two PERSON keys with normalized forms longer
\* than 2 characters contain one another.
C25_KeysPairwiseDistinct ==
    pc = "operate"
        => \A a \in TypeEntries(entity_mapping) :
              LET d == entity_mapping[a][2]
              IN  \A i, j \in 1..Len(d) :
                      i # j =>
                          IF entity_mapping[a][1] = "PERSON"
                          THEN ~OneIdentity(d[i][1], d[j][1])
                          ELSE Lower(d[i][1]) # Lower(d[j][1])

\* three operate calls have left two PERSON keys, a third mention having
\* been taken for one of them
C25_Witness ==
    /\ pc = "operate"
    /\ Len(items) = 3
    /\ MentionsOfType("PERSON") = {1, 2, 3}
    /\ Len(DictOf(entity_mapping, "PERSON")) = 2
    /\ \A i \in 1..3 : Len(RemoveChar(Strip(Lower(SpanText(i))), ".")) > 2

\* C27: a PERSON mention gets the placeholder of the first identity, in the
\* order the identities were created, whose key it matches, and it is held
\* against the keys only: "John" after "John Smith" and "John Doe" gets the
\* placeholder of "John Smith", and "Doe" after "John" and "John Doe", the
\* latter taken for "John", becomes a new identity.
C27_FirstMatchOnKeys ==
    [][(Operated /\ LastType = "PERSON")
          => LET d == DictOf(entity_mapping, "PERSON")
                 hits == {k \in 1..Len(d) : OneIdentity(d[k][1], LastMention)}
             IN  IF hits # {}
                 THEN \E k \in hits :
                         /\ \A h \in hits : k <= h
                         /\ LastReturned = d[k][2]
                 ELSE \A k \in 1..Len(d) : LastReturned # d[k][2]]_vars

\* "John Smith" and "John Doe" are identities 1 and 2 and "John" got the
\* placeholder of the first
C27_Witness ==
    /\ pc = "operate"
    /\ Len(items) = 3
    /\ SpanText(1) = S_JohnSmith
    /\ SpanText(2) = S_JohnDoe
    /\ SpanText(3) = S_John
    /\ ItemOf(1) # ItemOf(2)
    /\ ItemOf(3) = ItemOf(1)

\* "John Doe" was taken for "John", and "Doe" is a new identity
C27_WitnessLaterForm ==
    /\ pc = "operate"
    /\ Len(items) = 3
    /\ SpanText(1) = S_John
    /\ SpanText(2) = S_JohnDoe
    /\ SpanText(3) = S_Doe
    /\ ItemOf(2) = ItemOf(1)
    /\ ItemOf(3) # ItemOf(1)

\* C29: an operate call either adds one entry to the dict of its type, with
\* a new log of one element, or adds no entry and appends one string to one
\* existing log; it does not remove or change an entry, reorder a log or
\* touch the dict of another type, and a text that got a placeholder gets
\* it again.
C29_MappingOnlyGrows ==
    [][Operated
          => LET d == DictOf(entity_mapping, LastType)
             IN  /\ \/ /\ DictOf(entity_mapping', LastType)
                             = Append(d, <<LastMention, LastReturned>>)
                       /\ ~Has(original_occurrences, LastReturned)
                       /\ original_occurrences'
                             = Append(original_occurrences,
                                      <<LastReturned, <<LastMention>> >>)
                    \/ /\ entity_mapping' = entity_mapping
                       /\ \E a \in 1..Len(original_occurrences) :
                             /\ original_occurrences[a][1] = LastReturned
                             /\ original_occurrences'
                                   = [original_occurrences EXCEPT
                                        ![a] = <<LastReturned,
                                                 Append(original_occurrences[a][2],
                                                        LastMention)>>]
                 /\ \A t \in {EntityTypes[n] : n \in 1..Len(EntityTypes)} \ {LastType} :
                       DictOf(entity_mapping', t) = DictOf(entity_mapping, t)
                 /\ \A i \in 1..Len(items) :
                       (results[i].entity_type = LastType /\ SpanText(i) = LastMention)
                           => LastReturned = ItemOf(i)]_vars

\* both kinds of call have been made: two entries of one type, and a log
\* of two strings
C29_Witness ==
    /\ pc = "operate"
    /\ Len(items) = 3
    /\ \E a \in TypeEntries(entity_mapping) : Len(entity_mapping[a][2]) = 2
    /\ \E a \in 1..Len(original_occurrences) : Len(original_occurrences[a][2]) = 2

----------------------------------------------------------------------------
(* The two indices of a returned mapping (Spec)                            *)

\* the <<original, placeholder>> entries of all per-type dicts of a mapping
DictEntries(mapping) ==
    UNION {{mapping[a][2][i] : i \in 1..Len(mapping[a][2])} :
              a \in TypeEntries(mapping)}

\* C26: the mapping context-aware anonymize_pii returns has the reserved key
\* _original_occurrences; the placeholders that have a log are the
\* placeholders of the per-type dicts; every log is non-empty and begins
\* with the dict key of its placeholder; and the logs hold as many entries
\* as spans were operated on.
C26_IndicesConsistent ==
    Anonymized
        => LET d == ret.mapping.items
               log == LogIn(ret.mapping)
           IN  /\ ~ret.mapping.isNone
               /\ Has(d, ReservedKey)
               /\ {log[a][1] : a \in 1..Len(log)}
                     = {kv[2] : kv \in DictEntries(d)}
               /\ \A a \in 1..Len(log) :
                     /\ log[a][2] # <<>>
                     /\ <<log[a][2][1], log[a][1]>> \in DictEntries(d)
               /\ LogEntries(log) = Len(items)

\* a mapping with dicts of two types was returned, one mention having been
\* taken for an identity already there
C26_Witness ==
    /\ Anonymized
    /\ Len(items) = 3
    /\ Cardinality(TypeEntries(ret.mapping.items)) = 2
    /\ \E a \in 1..Len(LogIn(ret.mapping)) : Len(LogIn(ret.mapping)[a][2]) = 2

----------------------------------------------------------------------------
(* The objects PIIMasker() returns (SpecMasker)                            *)

\* C24: every PIIMasker() call that returns an instance returns one with
\* both its analyzer and its anonymizer set, also when the first calls run
\* at once and after a first call whose engine construction raised.
C24_ReturnedFullyInitialized ==
    \A t \in Threads :
        tpc[t] = "returned"
            => /\ objects[tret[t]].analyzer # 0
               /\ objects[tret[t]].anonymizer

----------------------------------------------------------------------------
(* The entity_types argument (SpecTypes)                                   *)

\* a type is in the list passed as entity_types
Listed(t) == \E n \in 1..Len(entity_types.types) : entity_types.types[n] = t

\* C23: with a list of some of the ten entity types passed as entity_types,
\* no span of a type that is not in the list is replaced, and the returned
\* mapping has no dict and no logged placeholder of such a type; with None,
\* the spans of all ten types are replaced.
C23_EntityTypesRestrict ==
    pc \in {"anonymized", "done"}
        => IF entity_types.isNone
           THEN \A i \in 1..Len(detection.spans) :
                   \E k \in 1..Len(items) : items[k].start = detection.spans[i].start
           ELSE /\ \A k \in 1..Len(items) : Listed(items[k].entity_type)
                /\ \A a \in TypeEntries(ret.mapping.items) :
                      Listed(ret.mapping.items[a][1])
                /\ \A a \in 1..Len(LogIn(ret.mapping)) :
                      \E k \in 1..Len(items) :
                          /\ items[k].text = LogIn(ret.mapping)[a][1]
                          /\ Listed(items[k].entity_type)

----------------------------------------------------------------------------
(* What de_anonymize_pii leaves alone (SpecPieces)                         *)

\* the stretches of a text outside the matches ps of the placeholder
\* pattern, from the i-th match on: before the first match, between two
\* matches, after the last
RECURSIVE Gaps(_, _, _, _)
Gaps(t, ps, i, from) ==
    IF i > Len(ps) THEN <<SubSeq(t, from, Len(t))>>
    ELSE <<SubSeq(t, from, ps[i].position)>>
            \o Gaps(t, ps, i + 1, ps[i].position + Len(ps[i].placeholder) + 1)

\* out is the stretches in their order with some text in place of every
\* match: it begins with the first, ends with the last, and the others
\* follow one another in it without overlap
RECURSIVE InOrder(_, _, _)
InOrder(out, gaps, first) ==
    LET g == Head(gaps)
    IN  IF Len(gaps) = 1
        THEN IF first THEN out = g
             ELSE /\ Len(out) >= Len(g)
                  /\ SubSeq(out, Len(out) - Len(g) + 1, Len(out)) = g
        ELSE IF first
        THEN /\ Len(out) >= Len(g)
             /\ SubSeq(out, 1, Len(g)) = g
             /\ InOrder(SubSeq(out, Len(g) + 1, Len(out)), Tail(gaps), FALSE)
        ELSE /\ Find(out, g) >= 0
             /\ InOrder(SubSeq(out, Find(out, g) + Len(g) + 1, Len(out)),
                        Tail(gaps), FALSE)

\* no logged original of a mapping has a match of the placeholder pattern
LoggedValuesPlain(mapping) ==
    \A a \in 1..Len(LogIn(mapping)) :
        \A i \in 1..Len(LogIn(mapping)[a][2]) :
            Placeholders(LogIn(mapping)[a][2][i]) = <<>>

\* C28: for a text and a mapping whose logged originals hold no
\* placeholder-shaped text, de_anonymize_pii keeps every character outside
\* the matches of <[A-Z_]+_digits>, in order; un-indexed tokens such as
\* <PERSON> are among these characters and stay.
C28_OnlyPlaceholdersChange ==
    (pc = "done" /\ deanonymized.exc = "none" /\ LoggedValuesPlain(ret.mapping))
        => InOrder(deanonymized.value,
                   Gaps(ret.text, Placeholders(ret.text), 1, 1), TRUE)


====
